---- MODULE Spec2Model ----
(***************************************************************************)
(* sphinxcontrib/doxylink/parsing.py: normalise() and the pyparsing        *)
(* grammar it drives.  Text is a sequence of one-character strings, a      *)
(* location is the 1-based index of the next character to read, and a      *)
(* recogniser that fails returns location 0.                               *)
(***************************************************************************)
EXTENDS Integers, Sequences, FiniteSets, TLC

(* ------------------------------------------------------------------ *)
(* Characters                                                          *)
(* ------------------------------------------------------------------ *)

\* pyparsing's default whitespace, skipped in front of every element that
\* does not stand inside a Combine.
White == {" ", "\t", "\n", "\r"}

Lower == {"a", "b", "c", "d", "e", "f", "g", "h", "i", "j", "k", "l", "m",
          "n", "o", "p", "q", "r", "s", "t", "u", "v", "w", "x", "y", "z"}

Upper == {"A", "B", "C", "D", "E", "F", "G", "H", "I", "J", "K", "L", "M",
          "N", "O", "P", "Q", "R", "S", "T", "U", "V", "W", "X", "Y", "Z"}

nums == {"0", "1", "2", "3", "4", "5", "6", "7", "8", "9"}

alphanums == Lower \cup Upper \cup nums

\* The characters that may not touch a Keyword (pyparsing's default).
IdentChars == alphanums \cup {"_", "$"}

\* Word(alphanums + ':_'), the characters of a type name.
TypeChars == alphanums \cup {":", "_"}

\* Word(alphanums + '_'), the characters of an argument name.
NameChars == alphanums \cup {"_"}

\* Word('-.' + nums)
NumberChars == nums \cup {"-", "."}

\* Word('|&^')
BitopChars == {"|", "&", "^"}

Quotes == {"\"", "'"}

(* ------------------------------------------------------------------ *)
(* The words of the grammar and of normalise                           *)
(* ------------------------------------------------------------------ *)

kwConst == <<"c", "o", "n", "s", "t">>

QualifierKeywords ==
    { kwConst,
      <<"t", "y", "p", "e", "n", "a", "m", "e">>,
      <<"s", "t", "r", "u", "c", "t">>,
      <<"e", "n", "u", "m">> }

FundamentalKeywords ==
    { <<"b", "o", "o", "l">>, <<"s", "h", "o", "r", "t">>, <<"i", "n", "t">>,
      <<"l", "o", "n", "g">>, <<"s", "i", "g", "n", "e", "d">>,
      <<"u", "n", "s", "i", "g", "n", "e", "d">>, <<"c", "h", "a", "r">>,
      <<"f", "l", "o", "a", "t">>, <<"d", "o", "u", "b", "l", "e">> }

Ellipsis == <<".", ".", ".">>

sOverride == <<" ", "o", "v", "e", "r", "r", "i", "d", "e">>

sFinal == <<" ", "f", "i", "n", "a", "l">>

sEmptyArgs == <<"(", ")">>

sEmptyArgsConst == <<"(", ")", " ", "c", "o", "n", "s", "t">>

\* The tuple ('()', '()=0', '()=default') of the fast path.
FastPlain ==
    { <<"(", ")">>, <<"(", ")", "=", "0">>,
      <<"(", ")", "=", "d", "e", "f", "a", "u", "l", "t">> }

\* The tuple ('()const', '()const=0') of the fast path.
FastConst ==
    { <<"(", ")", "c", "o", "n", "s", "t">>,
      <<"(", ")", "c", "o", "n", "s", "t", "=", "0">> }

(* ------------------------------------------------------------------ *)
(* Values computed once                                                *)
(* ------------------------------------------------------------------ *)

\* Bind(v, LAMBDA x : e) is LET x == v IN e, with v evaluated once however
\* often e uses x.
The(S) == CHOOSE x \in S : TRUE

Bind(v, F(_)) == The({ F(x) : x \in {v} })

(* ------------------------------------------------------------------ *)
(* str operations                                                      *)
(* ------------------------------------------------------------------ *)

\* s.startswith(w, loc - 1)
StartsWith(s, loc, w) ==
    /\ loc >= 1
    /\ loc + Len(w) - 1 <= Len(s)
    /\ \A i \in 1..Len(w) : s[loc + i - 1] = w[i]

\* w in s
Contains(s, w) == \E i \in 1..(Len(s) + 1) : StartsWith(s, i, w)

\* s.index(c) + 1 for a character c, 0 when str.index raises ValueError.
Index(s, c) ==
    IF \E i \in 1..Len(s) : s[i] = c
    THEN CHOOSE i \in 1..Len(s) : s[i] = c /\ \A j \in 1..(i - 1) : s[j] # c
    ELSE 0

\* s.rindex(c) + 1 for a character c, 0 when str.rindex raises ValueError.
RIndex(s, c) ==
    IF \E i \in 1..Len(s) : s[i] = c
    THEN CHOOSE i \in 1..Len(s) : s[i] = c /\ \A j \in (i + 1)..Len(s) : s[j] # c
    ELSE 0

\* s[loc - 1:]
From(s, loc) == SubSeq(s, loc, Len(s))

\* s.replace(w, ''): the occurrences of w are removed left to right, without
\* overlap, in one pass.
RECURSIVE ReplaceFrom(_, _, _)
ReplaceFrom(s, loc, w) ==
    IF loc > Len(s) THEN <<>>
    ELSE IF StartsWith(s, loc, w) THEN ReplaceFrom(s, loc + Len(w), w)
    ELSE <<s[loc]>> \o ReplaceFrom(s, loc + 1, w)

Replace(s, w) == Bind(s, LAMBDA t : ReplaceFrom(t, 1, w))

\* sep.join(parts)
RECURSIVE JoinFrom(_, _, _)
JoinFrom(parts, i, sep) ==
    IF i > Len(parts) THEN <<>>
    ELSE IF i = Len(parts) THEN parts[i]
    ELSE parts[i] \o sep \o JoinFrom(parts, i + 1, sep)

Join(parts, sep) == Bind(parts, LAMBDA p : JoinFrom(p, 1, sep))

(* ------------------------------------------------------------------ *)
(* Tokens of pyparsing                                                 *)
(* ------------------------------------------------------------------ *)

NoMatch == [loc |-> 0, tok |-> <<>>]

\* The end of the longest run of characters of chars that starts at loc.
RunEnd(s, loc, chars) ==
    CHOOSE e \in loc..(Len(s) + 1) :
        /\ \A j \in loc..(e - 1) : s[j] \in chars
        /\ (e = Len(s) + 1 \/ s[e] \notin chars)

\* ParserElement.preParse: skip the whitespace in front of an element.
SkipWhite(s, loc) == RunEnd(s, loc, White)

\* Literal(w) exactly at loc: the location after it, or 0.
LiteralAt(s, loc, w) == IF StartsWith(s, loc, w) THEN loc + Len(w) ELSE 0

\* Literal(w) after leading whitespace.
Lit(s, loc, w) == Bind(SkipWhite(s, loc), LAMBDA l : LiteralAt(s, l, w))

\* Keyword(w) exactly at loc: w, not touching an identifier character on
\* either side.
KeywordAt(s, loc, w) ==
    IF /\ StartsWith(s, loc, w)
       /\ (loc + Len(w) > Len(s) \/ s[loc + Len(w)] \notin IdentChars)
       /\ (loc = 1 \/ s[loc - 1] \notin IdentChars)
    THEN loc + Len(w)
    ELSE 0

\* Word(chars) exactly at loc.
WordAt(s, loc, chars) ==
    Bind(RunEnd(s, loc, chars), LAMBDA e :
        IF e > loc THEN [loc |-> e, tok |-> SubSeq(s, loc, e - 1)] ELSE NoMatch)

\* Keyword(k1) ^ Keyword(k2) ^ ... after leading whitespace: the keywords are
\* whole words, so at most one of them matches.
KeywordOf(s, loc, kws) ==
    Bind(SkipWhite(s, loc), LAMBDA l :
        Bind({ k \in kws : KeywordAt(s, l, k) # 0 }, LAMBDA found :
            IF found = {} THEN NoMatch
            ELSE Bind(The(found), LAMBDA k : [loc |-> l + Len(k), tok |-> k])))

\* OneOrMore(Keyword ^ ...) with the parse action ' '.join: the keywords read,
\* joined by single spaces.  first says whether none has been read yet.
RECURSIVE KeywordRun(_, _, _, _)
KeywordRun(s, loc, kws, first) ==
    Bind(KeywordOf(s, loc, kws), LAMBDA m :
        IF m.loc = 0 THEN [loc |-> (IF first THEN 0 ELSE loc), tok |-> <<>>]
        ELSE Bind(KeywordRun(s, m.loc, kws, FALSE), LAMBDA rest :
                 [loc |-> rest.loc,
                  tok |-> IF rest.tok = <<>> THEN m.tok
                          ELSE m.tok \o <<" ">> \o rest.tok]))

\* quotedString exactly at loc: a quote, then the text up to the same quote on
\* the same line.  (Backslash escapes and doubled quotes are not modelled.)
QuotedAt(s, loc) ==
    IF loc <= Len(s) /\ s[loc] \in Quotes
    THEN Bind({ i \in (loc + 1)..Len(s) :
                  /\ s[i] = s[loc]
                  /\ \A j \in (loc + 1)..(i - 1) :
                        s[j] # s[loc] /\ s[j] \notin {"\n", "\r"} },
              LAMBDA close :
                  IF close = {} THEN NoMatch
                  ELSE Bind(The(close), LAMBDA e :
                           [loc |-> e + 1, tok |-> SubSeq(s, loc, e)]))
    ELSE NoMatch

(* ------------------------------------------------------------------ *)
(* Template Flattener                                                  *)
(* ------------------------------------------------------------------ *)

\* An element of a token list is a token string or a nested token list.
Leaf(t) == [leaf |-> TRUE, tok |-> t, kids |-> <<>>]

Nested(k) == [leaf |-> FALSE, tok |-> <<>>, kids |-> k]

\* normalise_templates: '<', then ' ' + tok for a token and the flattened
\* list itself for a nested list, then ' >'.
RECURSIVE normalise_templates(_)
RECURSIVE TemplateElements(_, _)
TemplateElements(toks, i) ==
    IF i > Len(toks) THEN <<>>
    ELSE (IF toks[i].leaf THEN <<" ">> \o toks[i].tok
          ELSE normalise_templates(toks[i].kids))
         \o TemplateElements(toks, i + 1)

\* normalise_templates with the closing ' >' appended inside the loop.
RECURSIVE TemplateElementsClosed(_, _)
TemplateElementsClosed(toks, i) ==
    IF i > Len(toks) THEN <<>>
    ELSE (IF toks[i].leaf THEN <<" ">> \o toks[i].tok
          ELSE normalise_templates(toks[i].kids))
         \o <<" ", ">">>
         \o TemplateElementsClosed(toks, i + 1)

normalise_templates_closing_in_loop(toks) ==
    Bind(toks, LAMBDA t : <<"<">> \o TemplateElementsClosed(t, 1))

normalise_templates(toks) ==
    Bind(toks, LAMBDA t : <<"<">> \o TemplateElements(t, 1) \o <<" ", ">">>)

\* The content token of nestedExpr: the longest run of characters that are
\* neither brackets nor whitespace and at which no quoted string starts.
ContentEnd(s, loc) ==
    Bind(RunEnd(s, loc, { s[i] : i \in 1..Len(s) } \ ({"<", ">"} \cup White)),
         LAMBDA e :
            IF \E i \in loc..(e - 1) : QuotedAt(s, i).loc # 0
            THEN CHOOSE i \in loc..(e - 1) :
                    /\ QuotedAt(s, i).loc # 0
                    /\ \A j \in loc..(i - 1) : QuotedAt(s, j).loc = 0
            ELSE e)

NoNode == [loc |-> 0, node |-> Leaf(<<>>)]

\* nestedExpr(opener='<', closer='>') exactly at loc:
\*   Group(Suppress('<') + ZeroOrMore(quotedString | ret | content) + Suppress('>'))
\* With act, the parse action turn_parseresults_to_list runs on every region,
\* the inner ones first, so that a nested region reaches the enclosing one as
\* the string it was flattened to; without it the nested lists are kept.
RECURSIVE NestedExprAt(_, _, _)
RECURSIVE NestedItems(_, _, _)
NestedItem(s, l, act) ==
    Bind(QuotedAt(s, l), LAMBDA q :
        IF q.loc # 0 THEN [loc |-> q.loc, node |-> Leaf(q.tok)]
        ELSE Bind(NestedExprAt(s, l, act), LAMBDA r :
            IF r.loc # 0 THEN r
            ELSE Bind(ContentEnd(s, l), LAMBDA c :
                IF c > l THEN [loc |-> c, node |-> Leaf(SubSeq(s, l, c - 1))]
                ELSE NoNode)))

NestedItems(s, loc, act) ==
    Bind(NestedItem(s, SkipWhite(s, loc), act), LAMBDA one :
        IF one.loc = 0 THEN [loc |-> loc, toks |-> <<>>]
        ELSE Bind(NestedItems(s, one.loc, act), LAMBDA rest :
                 [loc |-> rest.loc, toks |-> <<one.node>> \o rest.toks]))

NestedExprAt(s, loc, act) ==
    IF loc <= Len(s) /\ s[loc] = "<"
    THEN Bind(NestedItems(s, loc + 1, act), LAMBDA items :
            Bind(Lit(s, items.loc, <<">">>), LAMBDA e :
                IF e = 0 THEN NoNode
                ELSE [loc |-> e,
                      node |-> IF act THEN Leaf(normalise_templates(items.toks))
                               ELSE Nested(items.toks)]))
    ELSE NoNode

\* angle_bracket_pair exactly at loc: the flattened region as one token.
angle_bracket_pair(s, loc) ==
    Bind(NestedExprAt(s, loc, TRUE), LAMBDA r : [loc |-> r.loc, tok |-> r.node.tok])

\* LPAR + SkipTo(RPAR) + RPAR and LBRACK + SkipTo(RBRACK) + RBRACK exactly at
\* loc: from the opener to the first closer.
BracketPair(s, loc, opener, closer) ==
    IF loc <= Len(s) /\ s[loc] = opener
    THEN IF \E i \in (loc + 1)..Len(s) : s[i] = closer
         THEN 1 + CHOOSE i \in (loc + 1)..Len(s) :
                    s[i] = closer /\ \A j \in (loc + 1)..(i - 1) : s[j] # closer
         ELSE 0
    ELSE 0

parentheses_pair(s, loc) == BracketPair(s, loc, "(", ")")

square_bracket_pair(s, loc) == BracketPair(s, loc, "[", "]")

(* ------------------------------------------------------------------ *)
(* Argument Grammar                                                    *)
(* ------------------------------------------------------------------ *)

\* qualifier after leading whitespace.
qualifier(s, loc) == KeywordRun(s, loc, QualifierKeywords, TRUE)

\* fundamental_input_type after leading whitespace.
fundamental_input_type(s, loc) == KeywordRun(s, loc, FundamentalKeywords, TRUE)

\* nonfundamental_input_type: a Combine, so whitespace is skipped in front of
\* it and nowhere between the word, the template region and the trailing word.
nonfundamental_input_type(s, loc) ==
    Bind(SkipWhite(s, loc), LAMBDA l :
    Bind(WordAt(s, l, TypeChars), LAMBDA w :
        IF w.loc = 0 THEN NoMatch
        ELSE Bind(angle_bracket_pair(s, w.loc), LAMBDA a :
            IF a.loc = 0 THEN w
            ELSE Bind(WordAt(s, a.loc, TypeChars), LAMBDA t :
                IF t.loc = 0 THEN [loc |-> a.loc, tok |-> w.tok \o a.tok]
                ELSE [loc |-> t.loc, tok |-> w.tok \o a.tok \o t.tok]))))

\* input_type = fundamental ^ nonfundamental: the longer match, the first of
\* the two when they are equally long.
input_type(s, loc) ==
    Bind(fundamental_input_type(s, loc), LAMBDA f :
    Bind(nonfundamental_input_type(s, loc), LAMBDA n :
        IF f.loc >= n.loc THEN f ELSE n))

\* pointer_or_reference: '*' or '&' with '...' right after it.
pointer_or_reference(s, loc) ==
    Bind(SkipWhite(s, loc), LAMBDA l :
        IF l <= Len(s) /\ s[l] \in {"*", "&"}
        THEN IF StartsWith(s, l + 1, Ellipsis)
             THEN [loc |-> l + 4, tok |-> <<s[l]>> \o Ellipsis]
             ELSE [loc |-> l + 1, tok |-> <<s[l]>>]
        ELSE NoMatch)

\* Optional(e, default=''): e's match, or nothing read and the empty string.
OptionalTok(m, loc) ==
    Bind(m, LAMBDA r : IF r.loc = 0 THEN [loc |-> loc, tok |-> <<>>] ELSE r)

\* Optional(e) for an element whose tokens are ignored.
OptionalLoc(m, loc) == Bind(m, LAMBDA e : IF e = 0 THEN loc ELSE e)

\* One element of input_name, exactly at l.
NameItem(s, l) ==
    Bind(WordAt(s, l, NameChars), LAMBDA w :
        IF w.loc # 0 THEN w.loc
        ELSE Bind(angle_bracket_pair(s, l), LAMBDA a :
            IF a.loc # 0 THEN a.loc
            ELSE Bind(parentheses_pair(s, l), LAMBDA p :
                IF p # 0 THEN p ELSE square_bracket_pair(s, l))))

\* input_name = OneOrMore(Word | angle | parentheses | square brackets)
RECURSIVE NameRun(_, _, _)
NameRun(s, loc, first) ==
    Bind(NameItem(s, SkipWhite(s, loc)), LAMBDA e :
        IF e = 0 THEN (IF first THEN 0 ELSE loc) ELSE NameRun(s, e, FALSE))

input_name(s, loc) == NameRun(s, loc, TRUE)

\* One element of default_value, exactly at l.
DefaultItem(s, l) ==
    Bind(WordAt(s, l, NumberChars), LAMBDA n :
        IF n.loc # 0 THEN n.loc
        ELSE Bind(QuotedAt(s, l), LAMBDA q :
            IF q.loc # 0 THEN q.loc
            ELSE Bind(input_type(s, l), LAMBDA t :
                IF t.loc # 0 THEN t.loc
                ELSE Bind(parentheses_pair(s, l), LAMBDA p :
                    IF p # 0 THEN p
                    ELSE Bind(angle_bracket_pair(s, l), LAMBDA a :
                        IF a.loc # 0 THEN a.loc
                        ELSE Bind(square_bracket_pair(s, l), LAMBDA b :
                            IF b # 0 THEN b
                            ELSE WordAt(s, l, BitopChars).loc))))))

RECURSIVE DefaultRun(_, _, _)
DefaultRun(s, loc, first) ==
    Bind(DefaultItem(s, SkipWhite(s, loc)), LAMBDA e :
        IF e = 0 THEN (IF first THEN 0 ELSE loc) ELSE DefaultRun(s, e, FALSE))

\* default_value = '=' + OneOrMore(...)
default_value(s, loc) ==
    Bind(Lit(s, loc, <<"=">>), LAMBDA e :
        IF e = 0 THEN 0 ELSE DefaultRun(s, e, TRUE))

NoArgument ==
    [loc |-> 0, qualifier |-> <<>>, input_type |-> <<>>,
     pointer_or_reference1 |-> <<>>, const_pointer_or_reference |-> <<>>,
     pointer_or_reference2 |-> <<>>]

\* Optional('const'): a Literal, which asks for no word boundary.
embedded_const(s, loc) ==
    Bind(Lit(s, loc, kwConst), LAMBDA e :
        IF e = 0 THEN [loc |-> loc, tok |-> <<>>] ELSE [loc |-> e, tok |-> kwConst])

\* argument = Group(argument_type + Optional(input_name) + Optional(default_value))
\* with the named results of argument_type.
argument(s, loc) ==
    Bind(OptionalTok(qualifier(s, loc), loc), LAMBDA q :
    Bind(input_type(s, q.loc), LAMBDA t :
        IF t.loc = 0 THEN NoArgument
        ELSE
    Bind(OptionalTok(pointer_or_reference(s, t.loc), t.loc), LAMBDA p1 :
    Bind(embedded_const(s, p1.loc), LAMBDA c :
    Bind(OptionalTok(pointer_or_reference(s, c.loc), c.loc), LAMBDA p2 :
    Bind(OptionalLoc(input_name(s, p2.loc), p2.loc), LAMBDA n :
    Bind(OptionalLoc(default_value(s, n), n), LAMBDA d :
        [loc |-> d, qualifier |-> q.tok, input_type |-> t.tok,
         pointer_or_reference1 |-> p1.tok,
         const_pointer_or_reference |-> c.tok,
         pointer_or_reference2 |-> p2.tok]))))))) 

\* The named results of an argument, without the location.
Fields(a) ==
    [qualifier |-> a.qualifier, input_type |-> a.input_type,
     pointer_or_reference1 |-> a.pointer_or_reference1,
     const_pointer_or_reference |-> a.const_pointer_or_reference,
     pointer_or_reference2 |-> a.pointer_or_reference2]

\* delimitedList(argument) after its first argument:
\* ZeroOrMore(Suppress(',') + argument)
RECURSIVE MoreArguments(_, _)
MoreArguments(s, loc) ==
    Bind(Lit(s, loc, <<",">>), LAMBDA c :
    Bind(IF c = 0 THEN NoArgument ELSE argument(s, c), LAMBDA a :
        IF a.loc = 0 THEN [loc |-> loc, args |-> <<>>]
        ELSE Bind(MoreArguments(s, a.loc), LAMBDA rest :
                 [loc |-> rest.loc, args |-> <<Fields(a)>> \o rest.args])))

ParseFailed == [ok |-> FALSE, loc |-> 0, arg_list |-> <<>>, var_args |-> FALSE]

\* Optional(COMMA + '...') at loc: the location after it, or loc.
var_args(s, loc) ==
    Bind(Lit(s, loc, <<",">>), LAMBDA comma :
        IF comma = 0 THEN loc
        ELSE OptionalLoc(Lit(s, comma, Ellipsis), loc))

\* arglist.parseString(s): LPAR + delimitedList(argument)('arg_list')
\* + Optional(COMMA + '...')('var_args') + RPAR, matched from the start of s;
\* parseString does not ask that the match reach the end of s.
arglist(s) ==
    Bind(Lit(s, 1, <<"(">>), LAMBDA open :
    Bind(IF open = 0 THEN NoArgument ELSE argument(s, open), LAMBDA first :
        IF first.loc = 0 THEN ParseFailed
        ELSE
    Bind(MoreArguments(s, first.loc), LAMBDA more :
    Bind(var_args(s, more.loc), LAMBDA dots :
    Bind(Lit(s, dots, <<")">>), LAMBDA close :
        IF close = 0 THEN ParseFailed
        ELSE [ok |-> TRUE, loc |-> close,
              arg_list |-> <<Fields(first)>> \o more.args,
              var_args |-> dots # more.loc])))))

(* ------------------------------------------------------------------ *)
(* Signature Normalizer                                                *)
(* ------------------------------------------------------------------ *)

\* The normalised form of one matched argument with the embedded const
\* appended as it was matched, without the blanks around it.
RenderArgument_bare_const(arg) ==
    (IF arg.qualifier # <<>> THEN arg.qualifier \o <<" ">> ELSE <<>>)
    \o arg.input_type
    \o arg.pointer_or_reference1
    \o arg.const_pointer_or_reference
    \o arg.pointer_or_reference2

\* The normalised form of one matched argument.
RenderArgument(arg) ==
    (IF arg.qualifier # <<>> THEN arg.qualifier \o <<" ">> ELSE <<>>)
    \o arg.input_type
    \o arg.pointer_or_reference1
    \o (IF arg.const_pointer_or_reference # <<>>
        THEN <<" ">> \o arg.const_pointer_or_reference \o <<" ">>
        ELSE <<>>)
    \o arg.pointer_or_reference2

\* normalised_arg_list: the matched arguments in order, then '...' when the
\* list has variable arguments.
NormalisedArgList(result) ==
    [i \in 1..Len(result.arg_list) |-> RenderArgument(result.arg_list[i])]
    \o (IF result.var_args THEN <<Ellipsis>> ELSE <<>>)

\* normalised_arg_list_string joined by ',' instead of ', '.
NormalisedArgListString_comma(result, arglist_suffix) ==
    <<"(">> \o Join(NormalisedArgList(result), <<",">>) \o <<")">>
    \o (IF Contains(arglist_suffix, kwConst) THEN <<" ">> \o kwConst ELSE <<>>)

\* normalised_arg_list_string with the trailing const.
NormalisedArgListString(result, arglist_suffix) ==
    <<"(">> \o Join(NormalisedArgList(result), <<",", " ">>) \o <<")">>
    \o (IF Contains(arglist_suffix, kwConst) THEN <<" ">> \o kwConst ELSE <<>>)

\* What a call of normalise gives: a returned pair or a raised exception, the
\* branch taken, and, when the grammar was run, the parse results and the
\* list of normalised arguments built from them.
Outcome(status, path, function_name, arg_list_string, result, arg_list) ==
    [status |-> status, path |-> path, name |-> function_name,
     args |-> arg_list_string, parsed |-> result, list |-> arg_list]

NoFastPath == <<"n", "o", "n", "e">>

\* The special case for '()' without the removal of ' final'.
FastPath_keeps_final(arglist_input_string) ==
    IF StartsWith(arglist_input_string, 1, sEmptyArgs)
    THEN Bind(Replace(Replace(arglist_input_string, sOverride), <<" ">>),
              LAMBDA arglist_input_string_no_spaces :
                 IF arglist_input_string_no_spaces \in FastPlain THEN sEmptyArgs
                 ELSE IF arglist_input_string_no_spaces \in FastConst
                 THEN sEmptyArgsConst
                 ELSE NoFastPath)
    ELSE NoFastPath

\* The special case for '()': the normalised argument list, or NoFastPath
\* when the special case does not return.
FastPath(arglist_input_string) ==
    IF StartsWith(arglist_input_string, 1, sEmptyArgs)
    THEN Bind(Replace(Replace(Replace(arglist_input_string, sOverride), sFinal),
                      <<" ">>),
              LAMBDA arglist_input_string_no_spaces :
                 IF arglist_input_string_no_spaces \in FastPlain THEN sEmptyArgs
                 ELSE IF arglist_input_string_no_spaces \in FastConst
                 THEN sEmptyArgsConst
                 ELSE NoFastPath)
    ELSE NoFastPath

\* normalise from the search for the closing bracket on.
GrammarPath(function_name, arglist_input_string) ==
    Bind(RIndex(arglist_input_string, ")"), LAMBDA closing_bracket_location :
        IF closing_bracket_location = 0
        THEN Outcome("ValueError", "grammar", <<>>, <<>>, ParseFailed, <<>>)
        ELSE
    Bind(From(arglist_input_string, closing_bracket_location + 1),
         LAMBDA arglist_suffix :
    Bind(SubSeq(arglist_input_string, 1, closing_bracket_location),
         LAMBDA input :
    Bind(arglist(input), LAMBDA result :
        IF ~result.ok
        THEN Outcome("ParseException", "grammar", <<>>, <<>>, result, <<>>)
        ELSE Outcome("returned", "grammar", function_name,
                     NormalisedArgListString(result, arglist_suffix), result,
                     NormalisedArgList(result))))))

\* normalise with find() in the place of index(): without a '(' the bracket
\* location is -1 and the symbol loses its last character.
normalise_find(symbol) ==
    Bind(Index(symbol, "("), LAMBDA bracket_location :
        IF bracket_location = 0
        THEN Outcome("returned", "bare", SubSeq(symbol, 1, Len(symbol) - 1),
                     <<>>, ParseFailed, <<>>)
        ELSE
    Bind(SubSeq(symbol, 1, bracket_location - 1), LAMBDA function_name :
    Bind(From(symbol, bracket_location), LAMBDA arglist_input_string :
    Bind(FastPath(arglist_input_string), LAMBDA fast :
        IF fast # NoFastPath
        THEN Outcome("returned", "fast", function_name, fast, ParseFailed, <<>>)
        ELSE GrammarPath(function_name, arglist_input_string)))))

normalise(symbol) ==
    Bind(Index(symbol, "("), LAMBDA bracket_location :
        IF bracket_location = 0
        THEN Outcome("returned", "bare", symbol, <<>>, ParseFailed, <<>>)
        ELSE
    Bind(SubSeq(symbol, 1, bracket_location - 1), LAMBDA function_name :
    Bind(From(symbol, bracket_location), LAMBDA arglist_input_string :
    Bind(FastPath(arglist_input_string), LAMBDA fast :
        IF fast # NoFastPath
        THEN Outcome("returned", "fast", function_name, fast, ParseFailed, <<>>)
        ELSE GrammarPath(function_name, arglist_input_string)))))

(* ------------------------------------------------------------------ *)
(* The callers of normalise: declarations as a documentation generator *)
(* writes them into its index                                          *)
(* ------------------------------------------------------------------ *)

\* The bound of the model: the largest number of parts (arguments, their
\* optional parts, pieces of trailing text, departures from the plain form) a
\* declaration is written with.
MaxWeight == 3

\* Function names: a plain one, and a qualified one with blanks around it.
PlainName == <<"f">>

FnNames == { PlainName, <<" ", "A", ":", ":", "b", " ">> }

wInt == <<"i", "n", "t">>

wConstant == <<"c", "o", "n", "s", "t", "a", "n", "t">>

\* A declared type: its words, and the template region after the last word
\* (a token list) when it has one.
Type(words, templ, targs) == [words |-> words, templ |-> templ, targs |-> targs]

Types ==
    { Type(<<wInt>>, FALSE, <<>>),
      Type(<<<<"u", "n", "s", "i", "g", "n", "e", "d">>, <<"l", "o", "n", "g">>>>, FALSE, <<>>),
      Type(<<<<"Q", "S", "t", "r", "i", "n", "g">>>>, FALSE, <<>>),
      Type(<<<<"v">>>>, TRUE, <<Leaf(wInt)>>),
      Type(<<<<"v">>>>, TRUE, <<Leaf(<<"w">>), Nested(<<Leaf(wInt)>>)>>) }

Quals == { <<>>, <<kwConst>>, <<kwConst, <<"s", "t", "r", "u", "c", "t">>>> }

\* What stands between the type and the name: marker, const, marker.
Declarator(m1, c, m2) == [m1 |-> m1, c |-> c, m2 |-> m2]

NoDeclarator == Declarator(<<>>, FALSE, <<>>)

Declarators ==
    { NoDeclarator,
      Declarator(<<"*">>, FALSE, <<>>), Declarator(<<"&">>, FALSE, <<>>),
      Declarator(<<"*">>, FALSE, <<"*">>), Declarator(<<"*">>, TRUE, <<>>),
      Declarator(<<"*">>, TRUE, <<"*">>), Declarator(<<>>, TRUE, <<>>) }

ArgNames == { <<>>, <<"x">>, wConstant }

\* The name an argument is renamed to.
OtherName == <<"y", "_", "1">>

\* Default values: none, a number, a constructor call, a quoted string, and
\* an arithmetic expression (outside the supported subset).
Defaults == { <<>>, <<"1">>, <<"Q", "S", "t", "r", "i", "n", "g", "(", ")">>, <<"'", "s", "'">>, <<"a", "+", "b">> }

Arguments ==
    [qual : Quals, type : Types, decl : Declarators, nm : ArgNames, dflt : Defaults]

\* The number of optional parts of an argument, plus one.
ArgWeight(a) ==
    1 + (IF a.qual # <<>> THEN 1 ELSE 0) + (IF a.type.templ THEN 1 ELSE 0)
      + (IF a.decl # NoDeclarator THEN 1 ELSE 0) + (IF a.nm # <<>> THEN 1 ELSE 0)
      + (IF a.dflt # <<>> THEN 1 ELSE 0)

ArgChoices == { a \in Arguments : ArgWeight(a) <= MaxWeight }

\* Text after the argument list.
SuffixPieces ==
    { <<" ">>, kwConst, <<"=", "0">>, <<"=", "d", "e", "f", "a", "u", "l", "t">>, sOverride, sFinal, <<")">> }

Styles == {"tight", "normal", "wide"}

\* The blank between two tokens: in the tight style only where two words
\* would otherwise run together.
Gap(left, right, style) ==
    IF style = "wide" THEN <<" ", " ">>
    ELSE IF style = "normal" THEN <<" ">>
    ELSE IF /\ left # <<>> /\ right # <<>>
            /\ left[Len(left)] \in IdentChars
            /\ right[1] \in IdentChars
         THEN <<" ">>
         ELSE <<>>

\* Tokens written one after the other with the style's blanks between them.
RECURSIVE SpacedFrom(_, _, _)
SpacedFrom(tokens, i, style) ==
    IF i > Len(tokens) THEN <<>>
    ELSE IF i = Len(tokens) THEN tokens[i]
    ELSE tokens[i] \o Gap(tokens[i], tokens[i + 1], style)
         \o SpacedFrom(tokens, i + 1, style)

Spaced(tokens, style) == Bind(tokens, LAMBDA t : SpacedFrom(t, 1, style))

\* A template region as written in the source.
RECURSIVE PrintTemplate(_, _)
RECURSIVE PrintElements(_, _, _)
PrintElements(toks, i, style) ==
    IF i > Len(toks) THEN <<>>
    ELSE (IF toks[i].leaf
          THEN (IF i > 1 \/ style # "tight" THEN <<" ">> ELSE <<>>) \o toks[i].tok
          ELSE (IF style = "wide" THEN <<" ">> ELSE <<>>)
               \o PrintTemplate(toks[i].kids, style))
         \o PrintElements(toks, i + 1, style)

PrintTemplate(toks, style) ==
    <<"<">> \o PrintElements(toks, 1, style)
    \o (IF style = "tight" THEN <<">">> ELSE <<" ", ">">>)

PrintType(t, style) ==
    Spaced(t.words, style)
    \o (IF t.templ
        THEN (IF style = "wide" THEN <<" ">> ELSE <<>>) \o PrintTemplate(t.targs, style)
        ELSE <<>>)

Opt(tok) == IF tok = <<>> THEN <<>> ELSE <<tok>>

PrintArgument(a, style) ==
    Spaced(a.qual \o <<PrintType(a.type, style)>> \o Opt(a.decl.m1)
           \o (IF a.decl.c THEN <<kwConst>> ELSE <<>>) \o Opt(a.decl.m2)
           \o Opt(a.nm)
           \o (IF a.dflt # <<>> THEN <<<<"=">>, a.dflt>> ELSE <<>>),
           style)

Comma(style) ==
    IF style = "tight" THEN <<",">>
    ELSE IF style = "normal" THEN <<",", " ">>
    ELSE <<" ", ",", " ">>

\* The declaration: name, '(', the arguments, ', ...' when variadic, ')'
\* unless the closing bracket was lost, and the text after it.
PrintSymbol(fn, as, dots, closed, sfx, style) ==
    fn \o <<"(">>
    \o (IF style = "wide" THEN <<" ">> ELSE <<>>)
    \o Join([i \in 1..Len(as) |-> PrintArgument(as[i], style)]
            \o (IF dots THEN <<Ellipsis>> ELSE <<>>), Comma(style))
    \o (IF style = "wide" THEN <<" ">> ELSE <<>>)
    \o (IF closed THEN <<")">> ELSE <<>>)
    \o Join(sfx, <<>>)

\* The same arguments under other names.
Renamed(as) ==
    [i \in 1..Len(as) |->
        [as[i] EXCEPT !.nm = IF as[i].nm = <<>> THEN <<>> ELSE OtherName]]

\* The same arguments without names and default values.
Erased(as) ==
    [i \in 1..Len(as) |-> [as[i] EXCEPT !.nm = <<>>, !.dflt = <<>>]]

(* ------------------------------------------------------------------ *)
(* State                                                               *)
(* ------------------------------------------------------------------ *)

VARIABLES
    pc,        \* "build": the declaration is being written; "done": normalise was called
    name,      \* the function name of the declaration
    args,      \* its arguments
    variadic,  \* whether it ends with ', ...'
    closed,    \* whether its closing bracket is written
    suffix,    \* the pieces of text after its argument list
    variant,   \* how the second symbol differs from the first
    symbol,    \* the symbol normalise was called with
    out,       \* what that call gave
    symbol2,   \* the second symbol normalise was called with
    out2,      \* what that call gave
    tpc,       \* the template flattener: "build", "flat", "again"
    toks,      \* a token list, as nestedExpr hands it to the parse action
    rendered,  \* normalise_templates(toks)
    reparsed,  \* rendered, read by nestedExpr again
    rerendered \* normalise_templates of the token list read from rendered

nvars == <<pc, name, args, variadic, closed, suffix, variant, symbol, out, symbol2,
           out2>>

tvars == <<tpc, toks, rendered, reparsed, rerendered>>

vars == <<nvars, tvars>>

NotCalled == Outcome("none", "none", <<>>, <<>>, ParseFailed, <<>>)

NotParsed == [loc |-> 0, node |-> Leaf(<<>>)]

Init ==
    /\ pc = "build"
    /\ name \in FnNames
    /\ args = <<>>
    /\ variadic = FALSE
    /\ closed = TRUE
    /\ suffix = <<>>
    /\ variant = "none"
    /\ symbol = <<>>
    /\ out = NotCalled
    /\ symbol2 = <<>>
    /\ out2 = NotCalled
    /\ tpc = "build"
    /\ toks = <<>>
    /\ rendered = <<>>
    /\ reparsed = NotParsed
    /\ rerendered = <<>>

RECURSIVE SumWeights(_)
SumWeights(as) ==
    IF Len(as) = 0 THEN 0 ELSE ArgWeight(as[1]) + SumWeights(Tail(as))

\* The size of the declaration being written.
Weight ==
    SumWeights(args) + Len(suffix) + (IF closed THEN 0 ELSE 1)
    + (IF name # PlainName THEN 1 ELSE 0)

(* ------------------------------------------------------------------ *)
(* Writing a declaration                                               *)
(* ------------------------------------------------------------------ *)

AddArgument(a) ==
    /\ pc = "build"
    /\ Weight + ArgWeight(a) <= MaxWeight
    /\ args' = Append(args, a)
    /\ UNCHANGED <<pc, name, variadic, closed, suffix, variant, symbol, out,
                   symbol2, out2>>
    /\ UNCHANGED tvars

SetVariadic ==
    /\ pc = "build"
    /\ ~variadic
    /\ Len(args) >= 1
    /\ variadic' = TRUE
    /\ UNCHANGED <<pc, name, args, closed, suffix, variant, symbol, out, symbol2,
                   out2>>
    /\ UNCHANGED tvars

\* The closing bracket of the argument list is lost.
LoseBracket ==
    /\ pc = "build"
    /\ closed
    /\ Weight + 1 <= MaxWeight
    /\ closed' = FALSE
    /\ UNCHANGED <<pc, name, args, variadic, suffix, variant, symbol, out, symbol2,
                   out2>>
    /\ UNCHANGED tvars

AddSuffix(p) ==
    /\ pc = "build"
    /\ Weight + 1 <= MaxWeight
    /\ suffix' = Append(suffix, p)
    /\ UNCHANGED <<pc, name, args, variadic, closed, variant, symbol, out, symbol2,
                   out2>>
    /\ UNCHANGED tvars

(* ------------------------------------------------------------------ *)
(* Calling normalise                                                   *)
(* ------------------------------------------------------------------ *)

Variants == {"tight", "wide", "renamed", "erased"}

\* The arguments of the second symbol.
VariantArgs(v, as) ==
    IF v = "renamed" THEN Renamed(as)
    ELSE IF v = "erased" THEN Erased(as)
    ELSE as

VariantStyle(v) == IF v \in {"tight", "wide"} THEN v ELSE "normal"

\* normalise is called with the declaration as the generator writes it, and
\* with the same declaration spaced or named differently.
Call(v) ==
    /\ pc = "build"
    /\ v \in {"renamed", "erased"} => VariantArgs(v, args) # args
    /\ pc' = "done"
    /\ variant' = v
    /\ symbol' = PrintSymbol(name, args, variadic, closed, suffix, "normal")
    /\ out' = normalise(symbol')
    /\ symbol2' = PrintSymbol(name, VariantArgs(v, args), variadic, closed,
                              suffix, VariantStyle(v))
    /\ out2' = normalise(symbol2')
    /\ UNCHANGED <<name, args, variadic, closed, suffix>>
    /\ UNCHANGED tvars

\* normalise is called with a symbol that has no argument list.
CallBare ==
    /\ pc = "build"
    /\ args = <<>>
    /\ closed
    /\ pc' = "done"
    /\ variant' = "bare"
    /\ symbol' = name \o Join(suffix, <<>>)
    /\ out' = normalise(symbol')
    /\ symbol2' = symbol'
    /\ out2' = out'
    /\ UNCHANGED <<name, args, variadic, closed, suffix>>
    /\ UNCHANGED tvars

Next ==
    \/ \E a \in ArgChoices : AddArgument(a)
    \/ SetVariadic
    \/ LoseBracket
    \/ \E p \in SuffixPieces : AddSuffix(p)
    \/ \E v \in Variants : Call(v)
    \/ CallBare

Spec == Init /\ [][Next]_vars

(* ------------------------------------------------------------------ *)
(* Calling normalise_templates                                         *)
(* ------------------------------------------------------------------ *)

\* The largest number of tokens and nested lists in a token list.
MaxNodes == 4

\* Tokens of a template region: words, a qualified name, a quoted string.
TemplateTokens ==
    { <<"a">>, wInt, <<"x", ":", ":", "y">>, <<"'", "c", "'">> }

RECURSIVE Nodes(_)
RECURSIVE NodesFrom(_, _)
NodesFrom(list, i) ==
    IF i > Len(list) THEN 0
    ELSE (IF list[i].leaf THEN 1 ELSE 1 + Nodes(list[i].kids))
         + NodesFrom(list, i + 1)

Nodes(list) == NodesFrom(list, 1)

\* A token is put at the end of the token list.
AppendToken(t) ==
    /\ tpc = "build"
    /\ Nodes(toks) < MaxNodes
    /\ toks' = Append(toks, Leaf(t))
    /\ UNCHANGED <<tpc, rendered, reparsed, rerendered>>
    /\ UNCHANGED nvars

\* The last k elements of the token list become one nested list.
Nest(k) ==
    /\ tpc = "build"
    /\ Nodes(toks) < MaxNodes
    /\ k <= Len(toks)
    /\ toks' = SubSeq(toks, 1, Len(toks) - k)
                \o <<Nested(SubSeq(toks, Len(toks) - k + 1, Len(toks)))>>
    /\ UNCHANGED <<tpc, rendered, reparsed, rerendered>>
    /\ UNCHANGED nvars

\* normalise_templates is called with the token list.
Flatten ==
    /\ tpc = "build"
    /\ tpc' = "flat"
    /\ rendered' = normalise_templates(toks)
    /\ UNCHANGED <<toks, reparsed, rerendered>>
    /\ UNCHANGED nvars

\* The string it gave is read as a bracket region again, keeping the nested
\* lists, and normalise_templates is called with what was read.
Renormalise ==
    /\ tpc = "flat"
    /\ tpc' = "again"
    /\ reparsed' = NestedExprAt(rendered, 1, FALSE)
    /\ rerendered' = IF reparsed'.loc = 0 THEN <<>>
                     ELSE normalise_templates(reparsed'.node.kids)
    /\ UNCHANGED <<toks, rendered>>
    /\ UNCHANGED nvars

InitT == Init /\ name = PlainName

NextT ==
    \/ \E t \in TemplateTokens : AppendToken(t)
    \/ \E k \in 0..MaxNodes : Nest(k)
    \/ Flatten
    \/ Renormalise

SpecT == InitT /\ [][NextT]_vars

(* ------------------------------------------------------------------ *)
(* Properties                                                          *)
(* ------------------------------------------------------------------ *)

\* The parts of a symbol the properties speak of.
NameOf(sym) == SubSeq(sym, 1, Index(sym, "(") - 1)

ArgsRegion(sym) == From(sym, Index(sym, "("))

SuffixOf(sym) == From(ArgsRegion(sym), RIndex(ArgsRegion(sym), ")") + 1)

Stripped(sym) ==
    Replace(Replace(Replace(ArgsRegion(sym), <<" ", "o", "v", "e", "r", "r", "i", "d", "e">>), <<" ", "f", "i", "n", "a", "l">>), <<" ">>)

EmptyListFirst(sym) ==
    /\ Index(sym, "(") # 0
    /\ Index(sym, "(") < Len(sym)
    /\ sym[Index(sym, "(") + 1] = ")"

FastResult(sym, list) ==
    Outcome("returned", "fast", NameOf(sym), list, ParseFailed, <<>>)

C1For(sym, o) ==
    EmptyListFirst(sym) =>
        /\ Stripped(sym) \in { <<"(", ")">>, <<"(", ")", "=", "0">>, <<"(", ")", "=", "d", "e", "f", "a", "u", "l", "t">> }
              => o = FastResult(sym, <<"(", ")">>)
        /\ Stripped(sym) \in { <<"(", ")", "c", "o", "n", "s", "t">>, <<"(", ")", "c", "o", "n", "s", "t", "=", "0">> }
              => o = FastResult(sym, <<"(", ")", " ", "c", "o", "n", "s", "t">>)

\* C1: when the first '(' of the symbol is directly followed by ')' and the
\* text from that '(' on, without ' override', ' final' and spaces, is '()',
\* '()=0' or '()=default', normalise returns (text before the '(', '()');
\* when it is '()const' or '()const=0', it returns (text before the '(',
\* '() const'); the grammar is not run in either case.
C1_FastPath == pc = "done" => C1For(symbol, out) /\ C1For(symbol2, out2)

\* 'f()const override' is answered by the fast path with '() const'.
C1_Witness ==
    /\ pc = "done"
    /\ symbol = <<"f", "(", ")", "c", "o", "n", "s", "t", " ", "o", "v", "e", "r", "r", "i", "d", "e">>
    /\ out = FastResult(symbol, <<"(", ")", " ", "c", "o", "n", "s", "t">>)
    /\ out.name = <<"f">>

C2For(sym, o) ==
    Index(sym, "(") = 0
        => o = Outcome("returned", "bare", sym, <<>>, ParseFailed, <<>>)

\* C2: for a symbol without '(' normalise returns (symbol, '') with the symbol
\* unchanged, raises nothing and does not run the grammar.
C2_BareName == pc = "done" => C2For(symbol, out) /\ C2For(symbol2, out2)

\* ' A::b  final' comes back with its blanks.
C2_Witness ==
    /\ pc = "done"
    /\ variant = "bare"
    /\ symbol = <<" ", "A", ":", ":", "b", " ", " ", "f", "i", "n", "a", "l">>
    /\ out.status = "returned"
    /\ out.name = symbol
    /\ out.args = <<>>

\* C3: two declarations with arguments that differ only in the names of the
\* arguments or in the blanks between tokens are both normalised or both
\* refused, and when normalised they have the same normalised argument list.
C3_Insensitive ==
    pc = "done" /\ variant \in {"tight", "wide", "renamed"} /\ args # <<>> =>
        /\ (out.status = "returned") <=> (out2.status = "returned")
        /\ out.status = "returned" => out.args = out2.args

\* C4: when the grammar path returns, the normalised argument list is the one
\* of the same declaration written without argument names and default
\* values: no text of a name or of a default value reaches it.
C4_NamesDiscarded ==
    pc = "done" /\ variant = "erased" /\ out.status = "returned"
    /\ out.path = "grammar" =>
        /\ out2.status = "returned"
        /\ out2.args = out.args

C5For(sym, o) ==
    Index(sym, "(") # 0 /\ o.path # "fast" =>
        /\ RIndex(ArgsRegion(sym), ")") = 0 => o.status # "returned"
        /\ o.status = "returned"
              => o.parsed.loc = RIndex(ArgsRegion(sym), ")") + 1

\* C5: off the fast path, normalise returns a pair only when the text from
\* the first '(' on has a ')' and the grammar matched the whole text from the
\* first '(' through the last ')'; otherwise it raises.
C5_AllOrNothing == pc = "done" => C5For(symbol, out) /\ C5For(symbol2, out2)

C6For(sym, o) ==
    o.status = "returned" /\ o.path = "grammar" =>
        /\ o.name = NameOf(sym)
        /\ o.list = [i \in 1..Len(o.parsed.arg_list) |->
                        RenderArgument(o.parsed.arg_list[i])]
                    \o (IF o.parsed.var_args THEN << <<".", ".", ".">> >> ELSE <<>>)
        /\ o.args = <<"(">> \o Join(o.list, <<",", " ">>) \o <<")">>
                    \o (IF Contains(SuffixOf(sym), <<"c", "o", "n", "s", "t">>)
                        THEN <<" ", "c", "o", "n", "s", "t">> ELSE <<>>)

\* C6: when the grammar succeeds normalise returns (text before the first
\* '(', S), S being '(' + the rendered arguments in source order joined by
\* ', ', with a last element '...' exactly when the list ends with ', ...',
\* + ')' and then ' const' exactly when the text after the last ')' contains
\* 'const'.
C6_Assembly ==
    pc = "done" =>
        /\ C6For(symbol, out)
        /\ C6For(symbol2, out2)
        /\ out.status = "returned" /\ out.path = "grammar"
              => out.parsed.var_args = variadic

\* 'f(int, int, ...)const' gives ('f', '(int, int, ...) const').
C6_Witness ==
    /\ pc = "done"
    /\ Len(args) = 2
    /\ variadic
    /\ out.status = "returned"
    /\ out.path = "grammar"
    /\ out.name = <<"f">>
    /\ out.args = <<"(", "i", "n", "t", ",", " ", "i", "n", "t", ",", " ", ".", ".", ".", ")", " ", "c", "o", "n", "s", "t">>

\* Every '<' is followed by exactly one blank and every '>' preceded by
\* exactly one blank.
Padded(r) ==
    \A i \in 1..Len(r) :
        /\ r[i] = "<" =>
              /\ i < Len(r)
              /\ r[i + 1] = " "
              /\ (i + 2 <= Len(r) => r[i + 2] # " ")
        /\ r[i] = ">" =>
              /\ i > 1
              /\ r[i - 1] = " "
              /\ (i - 2 >= 1 => r[i - 2] # " ")

\* C7: for every token list, of tokens and nested lists of any depth, the
\* string normalise_templates gives has exactly one blank after every '<' and
\* exactly one blank before every '>'.
C7_Padding == tpc # "build" => Padded(rendered)

C9For(sym, o) ==
    o.path = "fast" =>
        /\ GrammarPath(NameOf(sym), ArgsRegion(sym)).status = "returned"
        /\ GrammarPath(NameOf(sym), ArgsRegion(sym)).name = o.name
        /\ GrammarPath(NameOf(sym), ArgsRegion(sym)).args = o.args

\* C9: whenever the fast path returns, the rest of normalise (split at the
\* last ')', run the grammar, append ' const' for a suffix with 'const')
\* returns the same pair.
C9_PathsAgree == pc = "done" => C9For(symbol, out) /\ C9For(symbol2, out2)

\* The five parts of the rendering of a parsed argument, the first two as
\* qualifier and type name were matched.
Canonical(p, qualifier_part, type_part) ==
    qualifier_part
    \o type_part
    \o p.pointer_or_reference1
    \o (IF p.const_pointer_or_reference # <<>> THEN <<" ", "c", "o", "n", "s", "t", " ">> ELSE <<>>)
    \o p.pointer_or_reference2

\* The first two parts as the declaration has them: the qualifier keywords
\* joined by single blanks and followed by one blank, the keywords of a
\* fundamental type joined by single blanks.
QualifierPart(a) ==
    IF a.qual # <<>> THEN Join(a.qual, <<" ">>) \o <<" ">> ELSE <<>>

TypePart(p, a) ==
    IF a.type.templ THEN p.input_type ELSE Join(a.type.words, <<" ">>)

\* C10: every parsed argument is rendered as its qualifier followed by one
\* blank (nothing without a qualifier), the type name, marker1 directly after
\* the type, ' const ' exactly when an embedded const was parsed, and
\* marker2; the qualifier is the qualifier keywords of the declaration in
\* their order joined by single blanks, and a fundamental type name is its
\* keywords joined by single blanks.
C10_Rendering ==
    pc = "done" /\ out.status = "returned" /\ out.path = "grammar" =>
        /\ \A i \in 1..Len(out.parsed.arg_list) :
              out.list[i] =
                 Canonical(out.parsed.arg_list[i],
                           IF out.parsed.arg_list[i].qualifier # <<>>
                           THEN out.parsed.arg_list[i].qualifier \o <<" ">>
                           ELSE <<>>,
                           out.parsed.arg_list[i].input_type)
        /\ closed =>
              /\ Len(out.parsed.arg_list) = Len(args)
              /\ \A i \in 1..Len(args) :
                    out.list[i] =
                       Canonical(out.parsed.arg_list[i],
                                 QualifierPart(args[i]),
                                 TypePart(out.parsed.arg_list[i], args[i]))

\* 'const QString * const *' is rendered 'const QString* const *'.
C10_Witness ==
    /\ pc = "done"
    /\ out.status = "returned"
    /\ Len(args) = 1
    /\ args[1].qual # <<>>
    /\ args[1].decl = Declarator(<<"*">>, TRUE, <<"*">>)
    /\ out.list = << <<"c", "o", "n", "s", "t", " ", "Q", "S", "t", "r", "i", "n", "g", "*", " ", "c", "o", "n", "s", "t", " ", "*">> >>

====
